---- MODULE Spec2Model ----
\* Model of before_upload in Marlin/src/HAL/LPC1768/upload_extra_script.py:
\* the pre-upload hook that looks for the mounted disk of the target board.
EXTENDS Naturals, Sequences, FiniteSets, TLC

\* ------------------------------------------------------------------ bounds
MaxLetters == 4      \* how many letters of string.ascii_uppercase are modelled
MaxEntries == 3      \* how many entries the media root may hold

\* --------------------------------------------------------------- constants
target_filename == "FIRMWARE.CUR"
target_drive == "REARM"
ascii_uppercase ==
  << "A", "B", "C", "D", "E", "F", "G", "H", "I", "J", "K", "L", "M",
     "N", "O", "P", "Q", "R", "S", "T", "U", "V", "W", "X", "Y", "Z" >>
Letters == { ascii_uppercase[k] : k \in 1..MaxLetters }
user == "user"
DiskNotFound == "Disk not found"
UploadFlagsTemplate == "-P$UPLOAD_PORT"
AutodetectError == "Autodetect Error"
InitialPort == "<upload_port of platformio.ini>"
InitialFlags == "<upload_flags of platformio.ini>"

\* ------------------------------------------------------- Python values
\* A Python value carries its type: a str and a pathlib path never compare
\* equal, whatever their text.
Str(s) == [type |-> "str", val |-> s]
PathOf(parts) == [type |-> "Path", val |-> parts]
PyEq(a, b) == IF a.type = b.type THEN a.val = b.val ELSE FALSE
PyIn(a, list) == \E k \in 1..Len(list) : PyEq(a, list[k])

\* PurePath.__truediv__: an absolute right operand replaces the left one,
\* a str operand is one more component.
IsAbsolute(parts) == Len(parts) > 0 /\ parts[1] = "/"
PathJoin(p, q) ==
  IF q.type = "str" THEN PathOf(Append(p.val, q.val))
  ELSE IF IsAbsolute(q.val) THEN q
  ELSE PathOf(p.val \o q.val)

RECURSIVE JoinParts(_)
JoinParts(parts) ==
  IF Len(parts) = 0 THEN ""
  ELSE IF Len(parts) = 1 THEN parts[1]
  ELSE parts[1] \o "/" \o JoinParts(Tail(parts))
\* str() of a str, of a PosixPath (parts <<"/", ...>>) or of a
\* PureWindowsPath made of a bare drive (parts <<"C:">>)
PyStr(v) ==
  IF v.type = "str" THEN v.val
  ELSE IF IsAbsolute(v.val) THEN "/" \o JoinParts(Tail(v.val))
  ELSE JoinParts(v.val)

PureWindowsPath(name) == PathOf(<<name>>)
mpath == PathOf(<<"/", "media", user>>)
dpath == PathOf(<<"/", "Volumes">>)

\* ------------------------------------------------------------ environment
OSValues == {"Windows", "Linux", "Darwin", "FreeBSD"}
EntryNames == {"REARM", "OTHER", "OTHER1", "OTHER2"}
\* the result of one `cmd /C ...` call: it raises, or its output holds some
\* of the texts the script looks for
CmdRaises == [raises |-> TRUE, out |-> {}]
VolResults == {CmdRaises, [raises |-> FALSE, out |-> {}],
               [raises |-> FALSE, out |-> {target_drive}]}
DirResults == {CmdRaises, [raises |-> FALSE, out |-> {}],
               [raises |-> FALSE, out |-> {target_filename}]}
\* the result of iterating a directory: it raises, or yields its entries
ListRaises == [raises |-> TRUE, items |-> {}]
FileItem == [name |-> target_filename, is_file |-> TRUE]
SubdirItem == [name |-> target_filename, is_file |-> FALSE]
OtherItem == [name |-> "README.TXT", is_file |-> TRUE]
Listings == {ListRaises,
             [raises |-> FALSE, items |-> {OtherItem}],
             [raises |-> FALSE, items |-> {OtherItem, FileItem}],
             [raises |-> FALSE, items |-> {SubdirItem}]}
\* one entry of the media root; a plain file cannot be iterated
EntryRecs ==
  [name : EntryNames, is_dir : {TRUE}, listing : Listings] \cup
  [name : EntryNames, is_dir : {FALSE}, listing : {ListRaises}]
DistinctNames(s) == \A a, b \in 1..Len(s) : a # b => s[a].name # s[b].name
Enumerations ==
  {s \in UNION {[1..n -> EntryRecs] : n \in 0..MaxEntries} : DistinctNames(s)}
RootErrors == {"[Errno 2] No such file or directory",
               "[Errno 13] Permission denied"}
NoError == "none"

VARIABLES
  current_OS,          \* platform.system()
  bitmask,             \* windll.kernel32.GetLogicalDrives()
  vol,                 \* letter -> result of `cmd /C vol <letter>:`
  dir,                 \* letter -> result of `cmd /C dir <letter>:`
  rootErr,             \* the error iterating the media root raises, or NoError
  entries,             \* the entries of the media root, in iterdir() order
  pc,                  \* position in before_upload
  drives,              \* the local list `drives`
  idx,                 \* position of the running for loop in `drives`
  upload_disk, target_file_found, target_drive_found,
  UPLOAD_PORT, UPLOAD_FLAGS,   \* the two fields of the build configuration
  portWrites, flagsWrites,     \* number of env.Replace calls on each field
  stdout,              \* what was printed, in order
  exc,                 \* text of the exception on its way to the handler
  queries              \* the per-candidate queries made, in order

world == <<current_OS, bitmask, vol, dir, rootErr, entries>>
locals == <<drives, idx, upload_disk, target_file_found, target_drive_found>>
config == <<UPLOAD_PORT, UPLOAD_FLAGS, portWrites, flagsWrites>>
vars == <<world, pc, locals, config, stdout, exc, queries>>

\* ------------------------------------------------------------------- Init
Bit(mask, k) == (mask \div (2 ^ (k - 1))) % 2
Init ==
  /\ current_OS \in OSValues
  /\ IF current_OS = "Windows"
       THEN /\ bitmask \in 0..(2 ^ MaxLetters - 1)
            /\ vol \in [Letters -> VolResults]
            /\ dir \in [Letters -> DirResults]
            /\ \A k \in 1..MaxLetters : Bit(bitmask, k) = 0 =>
                 /\ vol[ascii_uppercase[k]] = CmdRaises
                 /\ dir[ascii_uppercase[k]] = CmdRaises
       ELSE /\ bitmask = 0
            /\ vol = [l \in Letters |-> CmdRaises]
            /\ dir = [l \in Letters |-> CmdRaises]
  /\ IF current_OS \in {"Linux", "Darwin"}
       THEN /\ rootErr \in RootErrors \cup {NoError}
            /\ entries \in Enumerations
            /\ rootErr # NoError => entries = << >>
       ELSE /\ rootErr = NoError
            /\ entries = << >>
  /\ pc = "start"
  /\ drives = << >>
  /\ idx = 1
  /\ upload_disk = Str(DiskNotFound)
  /\ target_file_found = FALSE
  /\ target_drive_found = FALSE
  /\ UPLOAD_PORT = InitialPort
  /\ UPLOAD_FLAGS = InitialFlags
  /\ portWrites = 0
  /\ flagsWrites = 0
  /\ stdout = << >>
  /\ exc = NoError
  /\ queries = << >>

\* ---------------------------------------------------------------- helpers
Query(op, on, raised) == [op |-> op, on |-> on, raised |-> raised]
Printed(kind, text) == [kind |-> kind, text |-> text]
\* `continue`, or falling off the end of the loop body: the next drive, or
\* the statement after the loop
NextDrive(after) ==
  IF idx < Len(drives)
    THEN idx' = idx + 1 /\ pc' = pc
    ELSE idx' = idx /\ pc' = after
\* entering a for loop over `drives`
EnterLoop(list, loop, after) ==
  /\ idx' = 1
  /\ pc' = IF Len(list) = 0 THEN after ELSE loop

\* ---------------------------------------------------------------- Windows
RECURSIVE LogicalDrives(_, _)
LogicalDrives(mask, k) ==
  IF k > MaxLetters THEN << >>
  ELSE (IF mask % 2 = 1 THEN <<ascii_uppercase[k]>> ELSE << >>)
       \o LogicalDrives(mask \div 2, k + 1)

BeginWindows ==
  /\ pc = "start" /\ current_OS = "Windows"
  /\ drives' = LogicalDrives(bitmask, 1)
  /\ EnterLoop(drives', "win_loop", "finish")
  /\ UNCHANGED <<world, upload_disk, target_file_found, target_drive_found,
                 config, stdout, exc, queries>>

final_drive_name == drives[idx] \o ":"

\* `vol` raises: print the error, continue
WinVolError ==
  /\ pc = "win_loop"
  /\ vol[drives[idx]].raises
  /\ queries' = Append(queries, Query("vol", drives[idx], TRUE))
  /\ stdout' = Append(stdout, Printed("error", "vol"))
  /\ NextDrive("finish")
  /\ UNCHANGED <<world, drives, upload_disk, target_file_found,
                 target_drive_found, config, exc>>

\* a slip: the label match forgets to record the drive
WinLabelMatch_NoDisk ==
  /\ pc = "win_loop"
  /\ ~vol[drives[idx]].raises
  /\ target_drive \in vol[drives[idx]].out
  /\ queries' = Append(queries, Query("vol", drives[idx], FALSE))
  /\ target_drive_found' = TRUE
  /\ pc' = "finish"
  /\ UNCHANGED <<world, drives, idx, upload_disk, target_file_found, config,
                 stdout, exc>>

\* target_drive in volume_info: take the drive, break
WinLabelMatch ==
  /\ pc = "win_loop"
  /\ ~vol[drives[idx]].raises
  /\ target_drive \in vol[drives[idx]].out
  /\ queries' = Append(queries, Query("vol", drives[idx], FALSE))
  /\ upload_disk' = PureWindowsPath(final_drive_name)
  /\ target_drive_found' = TRUE
  /\ pc' = "finish"
  /\ UNCHANGED <<world, drives, idx, target_file_found, config, stdout, exc>>

\* a slip: an error of `dir` ends the scan
WinDirError_Break ==
  /\ pc = "win_loop"
  /\ ~vol[drives[idx]].raises
  /\ target_drive \notin vol[drives[idx]].out
  /\ dir[drives[idx]].raises
  /\ queries' = queries \o <<Query("vol", drives[idx], FALSE),
                             Query("dir", drives[idx], TRUE)>>
  /\ stdout' = Append(stdout, Printed("error", "dir"))
  /\ pc' = "finish"
  /\ UNCHANGED <<world, locals, config, exc>>

\* no label, and `dir` raises: print the error, continue
WinDirError ==
  /\ pc = "win_loop"
  /\ ~vol[drives[idx]].raises
  /\ target_drive \notin vol[drives[idx]].out
  /\ dir[drives[idx]].raises
  /\ queries' = queries \o <<Query("vol", drives[idx], FALSE),
                             Query("dir", drives[idx], TRUE)>>
  /\ stdout' = Append(stdout, Printed("error", "dir"))
  /\ NextDrive("finish")
  /\ UNCHANGED <<world, drives, upload_disk, target_file_found,
                 target_drive_found, config, exc>>

\* a slip: the file match without its break
WinFileMatch_NoBreak ==
  /\ pc = "win_loop"
  /\ ~vol[drives[idx]].raises
  /\ target_drive \notin vol[drives[idx]].out
  /\ ~dir[drives[idx]].raises
  /\ target_filename \in dir[drives[idx]].out
  /\ queries' = queries \o <<Query("vol", drives[idx], FALSE),
                             Query("dir", drives[idx], FALSE)>>
  /\ upload_disk' = PureWindowsPath(final_drive_name)
  /\ target_file_found' = TRUE
  /\ NextDrive("finish")
  /\ UNCHANGED <<world, drives, target_drive_found, config, stdout, exc>>

\* no label, target_filename in dir_info: take the drive, break
WinFileMatch ==
  /\ pc = "win_loop"
  /\ ~vol[drives[idx]].raises
  /\ target_drive \notin vol[drives[idx]].out
  /\ ~dir[drives[idx]].raises
  /\ target_filename \in dir[drives[idx]].out
  /\ queries' = queries \o <<Query("vol", drives[idx], FALSE),
                             Query("dir", drives[idx], FALSE)>>
  /\ upload_disk' = PureWindowsPath(final_drive_name)
  /\ target_file_found' = TRUE
  /\ pc' = "finish"
  /\ UNCHANGED <<world, drives, idx, target_drive_found, config, stdout, exc>>

\* neither: the loop body ends, next drive
WinNoMatch ==
  /\ pc = "win_loop"
  /\ ~vol[drives[idx]].raises
  /\ target_drive \notin vol[drives[idx]].out
  /\ ~dir[drives[idx]].raises
  /\ target_filename \notin dir[drives[idx]].out
  /\ queries' = queries \o <<Query("vol", drives[idx], FALSE),
                             Query("dir", drives[idx], FALSE)>>
  /\ NextDrive("finish")
  /\ UNCHANGED <<world, drives, upload_disk, target_file_found,
                 target_drive_found, config, stdout, exc>>

\* ------------------------------------------------------- the media root
\* [ x for x in root.iterdir() if x.is_dir() ]: pathlib paths, root included
IterdirDirs(root) ==
  LET ds == SelectSeq(entries, LAMBDA e : e.is_dir)
  IN  [k \in 1..Len(ds) |-> PathJoin(root, Str(ds[k].name))]
\* what iterating the directory at path p of the media root does
ListingOf(root, p) ==
  LET k == CHOOSE j \in 1..Len(entries) :
             PyEq(PathJoin(root, Str(entries[j].name)), p)
  IN  entries[k].listing
\* [ x.name for x in fpath.iterdir() if x.is_file() ]
FileNames(listing) == {x.name : x \in {i \in listing.items : i.is_file}}

\* ------------------------------------------------------------------ Linux
BeginLinux ==
  /\ pc = "start" /\ current_OS = "Linux"
  /\ IF rootErr # NoError
       THEN /\ exc' = rootErr
            /\ pc' = "except"
            /\ UNCHANGED <<locals>>
       ELSE /\ drives' = IterdirDirs(mpath)
            /\ exc' = exc
            /\ IF PyIn(Str(target_drive), drives')
                 THEN /\ target_drive_found' = TRUE
                      /\ upload_disk' = PathJoin(mpath, Str(target_drive))
                      /\ idx' = idx
                      /\ pc' = "linux_flags"
                 ELSE /\ EnterLoop(drives', "linux_loop", "linux_flags")
                      /\ UNCHANGED <<target_drive_found, upload_disk>>
            /\ UNCHANGED target_file_found
  /\ UNCHANGED <<world, config, stdout, queries>>

\* iterating mpath / drive raises: continue
LinuxListError ==
  /\ pc = "linux_loop"
  /\ ListingOf(mpath, PathJoin(mpath, drives[idx])).raises
  /\ queries' = Append(queries,
                  Query("iterdir", PathJoin(mpath, drives[idx]), TRUE))
  /\ NextDrive("linux_flags")
  /\ UNCHANGED <<world, drives, upload_disk, target_file_found,
                 target_drive_found, config, stdout, exc>>

\* a slip: the file match without its break
LinuxFileMatch_NoBreak ==
  /\ pc = "linux_loop"
  /\ ~ListingOf(mpath, PathJoin(mpath, drives[idx])).raises
  /\ target_filename \in
       FileNames(ListingOf(mpath, PathJoin(mpath, drives[idx])))
  /\ queries' = Append(queries,
                  Query("iterdir", PathJoin(mpath, drives[idx]), FALSE))
  /\ upload_disk' = PathJoin(mpath, drives[idx])
  /\ target_file_found' = TRUE
  /\ NextDrive("linux_flags")
  /\ UNCHANGED <<world, drives, target_drive_found, config, stdout, exc>>

\* target_filename in filenames: take the directory, break
LinuxFileMatch ==
  /\ pc = "linux_loop"
  /\ ~ListingOf(mpath, PathJoin(mpath, drives[idx])).raises
  /\ target_filename \in
       FileNames(ListingOf(mpath, PathJoin(mpath, drives[idx])))
  /\ queries' = Append(queries,
                  Query("iterdir", PathJoin(mpath, drives[idx]), FALSE))
  /\ upload_disk' = PathJoin(mpath, drives[idx])
  /\ target_file_found' = TRUE
  /\ pc' = "linux_flags"
  /\ UNCHANGED <<world, drives, idx, target_drive_found, config, stdout, exc>>

\* the file is not there: the loop body ends, next directory
LinuxNoMatch ==
  /\ pc = "linux_loop"
  /\ ~ListingOf(mpath, PathJoin(mpath, drives[idx])).raises
  /\ target_filename \notin
       FileNames(ListingOf(mpath, PathJoin(mpath, drives[idx])))
  /\ queries' = Append(queries,
                  Query("iterdir", PathJoin(mpath, drives[idx]), FALSE))
  /\ NextDrive("linux_flags")
  /\ UNCHANGED <<world, drives, upload_disk, target_file_found,
                 target_drive_found, config, stdout, exc>>

\* a slip: the flags are set whatever the scan found
LinuxFlags_Unconditional ==
  /\ pc = "linux_flags"
  /\ UPLOAD_FLAGS' = UploadFlagsTemplate
  /\ flagsWrites' = flagsWrites + 1
  /\ pc' = "finish"
  /\ UNCHANGED <<world, locals, UPLOAD_PORT, portWrites, stdout, exc, queries>>

\* if target_file_found or target_drive_found: env.Replace(UPLOAD_FLAGS=...)
LinuxFlags ==
  /\ pc = "linux_flags"
  /\ IF target_file_found \/ target_drive_found
       THEN /\ UPLOAD_FLAGS' = UploadFlagsTemplate
            /\ flagsWrites' = flagsWrites + 1
       ELSE UNCHANGED <<UPLOAD_FLAGS, flagsWrites>>
  /\ pc' = "finish"
  /\ UNCHANGED <<world, locals, UPLOAD_PORT, portWrites, stdout, exc, queries>>

\* ------------------------------------------------------------------ macOS
BeginDarwin ==
  /\ pc = "start" /\ current_OS = "Darwin"
  /\ IF rootErr # NoError
       THEN /\ exc' = rootErr
            /\ pc' = "except"
            /\ UNCHANGED <<locals>>
       ELSE /\ drives' = IterdirDirs(dpath)
            /\ exc' = exc
            /\ IF PyIn(Str(target_drive), drives') /\ ~target_file_found
                 THEN /\ target_drive_found' = TRUE
                      /\ upload_disk' = PathJoin(dpath, Str(target_drive))
                 ELSE UNCHANGED <<target_drive_found, upload_disk>>
            /\ EnterLoop(drives', "mac_loop", "finish")
            /\ UNCHANGED target_file_found
  /\ UNCHANGED <<world, config, stdout, queries>>

\* iterating dpath / drive raises (a protected volume): continue
MacListError ==
  /\ pc = "mac_loop"
  /\ ListingOf(dpath, PathJoin(dpath, drives[idx])).raises
  /\ queries' = Append(queries,
                  Query("iterdir", PathJoin(dpath, drives[idx]), TRUE))
  /\ NextDrive("finish")
  /\ UNCHANGED <<world, drives, upload_disk, target_file_found,
                 target_drive_found, config, stdout, exc>>

\* a slip: the file match without its break
MacFileMatch_NoBreak ==
  /\ pc = "mac_loop"
  /\ ~ListingOf(dpath, PathJoin(dpath, drives[idx])).raises
  /\ target_filename \in
       FileNames(ListingOf(dpath, PathJoin(dpath, drives[idx])))
  /\ queries' = Append(queries,
                  Query("iterdir", PathJoin(dpath, drives[idx]), FALSE))
  /\ upload_disk' = PathJoin(dpath, drives[idx])
  /\ target_file_found' = TRUE
  /\ NextDrive("finish")
  /\ UNCHANGED <<world, drives, target_drive_found, config, stdout, exc>>

\* target_filename in filenames: take the directory, break
MacFileMatch ==
  /\ pc = "mac_loop"
  /\ ~ListingOf(dpath, PathJoin(dpath, drives[idx])).raises
  /\ target_filename \in
       FileNames(ListingOf(dpath, PathJoin(dpath, drives[idx])))
  /\ queries' = Append(queries,
                  Query("iterdir", PathJoin(dpath, drives[idx]), FALSE))
  /\ upload_disk' = PathJoin(dpath, drives[idx])
  /\ target_file_found' = TRUE
  /\ pc' = "finish"
  /\ UNCHANGED <<world, drives, idx, target_drive_found, config, stdout, exc>>

\* a slip: a directory without the file ends the scan
MacNoMatch_Break ==
  /\ pc = "mac_loop"
  /\ ~ListingOf(dpath, PathJoin(dpath, drives[idx])).raises
  /\ target_filename \notin
       FileNames(ListingOf(dpath, PathJoin(dpath, drives[idx])))
  /\ queries' = Append(queries,
                  Query("iterdir", PathJoin(dpath, drives[idx]), FALSE))
  /\ pc' = "finish"
  /\ UNCHANGED <<world, locals, config, stdout, exc>>

\* the file is not there: the loop body ends, next directory
MacNoMatch ==
  /\ pc = "mac_loop"
  /\ ~ListingOf(dpath, PathJoin(dpath, drives[idx])).raises
  /\ target_filename \notin
       FileNames(ListingOf(dpath, PathJoin(dpath, drives[idx])))
  /\ queries' = Append(queries,
                  Query("iterdir", PathJoin(dpath, drives[idx]), FALSE))
  /\ NextDrive("finish")
  /\ UNCHANGED <<world, drives, upload_disk, target_file_found,
                 target_drive_found, config, stdout, exc>>

\* ------------------------------------------------------- any other system
BeginOther ==
  /\ pc = "start"
  /\ current_OS \notin {"Windows", "Linux", "Darwin"}
  /\ pc' = "finish"
  /\ UNCHANGED <<world, locals, config, stdout, exc, queries>>

\* ------------------------------------------------------------ the outcome
\* a slip: the port is set whatever the scan found
Finish_Always ==
  /\ pc = "finish"
  /\ UPLOAD_PORT' = PyStr(upload_disk)
  /\ portWrites' = portWrites + 1
  /\ stdout' = Append(stdout, Printed("upload_disk", PyStr(upload_disk)))
  /\ pc' = "done"
  /\ UNCHANGED <<world, locals, UPLOAD_FLAGS, flagsWrites, exc, queries>>

\* if target_file_found or target_drive_found: set UPLOAD_PORT, else
\* print_error('Autodetect Error')
Finish ==
  /\ pc = "finish"
  /\ IF target_file_found \/ target_drive_found
       THEN /\ UPLOAD_PORT' = PyStr(upload_disk)
            /\ portWrites' = portWrites + 1
            /\ stdout' = Append(stdout,
                           Printed("upload_disk", PyStr(upload_disk)))
       ELSE /\ stdout' = Append(stdout, Printed("print_error", AutodetectError))
            /\ UNCHANGED <<UPLOAD_PORT, portWrites>>
  /\ pc' = "done"
  /\ UNCHANGED <<world, locals, UPLOAD_FLAGS, flagsWrites, exc, queries>>

\* a slip: the handler reports the generic error
Except_Generic ==
  /\ pc = "except"
  /\ stdout' = Append(stdout, Printed("print_error", AutodetectError))
  /\ pc' = "done"
  /\ UNCHANGED <<world, locals, config, exc, queries>>

\* except Exception as e: print_error(str(e))
Except ==
  /\ pc = "except"
  /\ stdout' = Append(stdout, Printed("print_error", exc))
  /\ pc' = "done"
  /\ UNCHANGED <<world, locals, config, exc, queries>>

Next ==
  \/ BeginWindows \/ WinVolError \/ WinLabelMatch \/ WinDirError
  \/ WinFileMatch \/ WinNoMatch
  \/ BeginLinux \/ LinuxListError \/ LinuxFileMatch \/ LinuxNoMatch
  \/ LinuxFlags
  \/ BeginDarwin \/ MacListError \/ MacFileMatch \/ MacNoMatch
  \/ BeginOther \/ Finish \/ Except

Spec == Init /\ [][Next]_vars

\* ------------------------------------------------ the scan as a function
\* The same code read as a function of the list `drives`: what the scan
\* selects, <<found, upload_disk>>.
NotFound == [file |-> FALSE, drive |-> FALSE, disk |-> Str(DiskNotFound)]
RECURSIVE WinScan(_)
WinScan(ds) ==
  IF Len(ds) = 0 THEN NotFound
  ELSE LET d == Head(ds) IN
    IF vol[d].raises THEN WinScan(Tail(ds))
    ELSE IF target_drive \in vol[d].out
      THEN [file |-> FALSE, drive |-> TRUE, disk |-> PureWindowsPath(d \o ":")]
    ELSE IF dir[d].raises THEN WinScan(Tail(ds))
    ELSE IF target_filename \in dir[d].out
      THEN [file |-> TRUE, drive |-> FALSE, disk |-> PureWindowsPath(d \o ":")]
    ELSE WinScan(Tail(ds))

RECURSIVE FileScan(_, _, _)
FileScan(root, ds, sofar) ==
  IF Len(ds) = 0 THEN sofar
  ELSE LET fpath == PathJoin(root, Head(ds)) IN
    IF ListingOf(root, fpath).raises THEN FileScan(root, Tail(ds), sofar)
    ELSE IF target_filename \in FileNames(ListingOf(root, fpath))
      THEN [file |-> TRUE, drive |-> sofar.drive, disk |-> fpath]
    ELSE FileScan(root, Tail(ds), sofar)

LabelPick(root) ==
  [file |-> FALSE, drive |-> TRUE, disk |-> PathJoin(root, Str(target_drive))]
LinuxScan(ds) ==
  IF PyIn(Str(target_drive), ds) THEN LabelPick(mpath)
  ELSE FileScan(mpath, ds, NotFound)
DarwinScan(ds) ==
  FileScan(dpath, ds,
           IF PyIn(Str(target_drive), ds) THEN LabelPick(dpath) ELSE NotFound)

\* what before_upload leaves behind when its scan runs over the list ds
OutcomeOf(ds) ==
  LET r == IF current_OS = "Windows" THEN WinScan(ds)
           ELSE IF current_OS = "Linux" THEN LinuxScan(ds)
           ELSE IF current_OS = "Darwin" THEN DarwinScan(ds)
           ELSE NotFound
      found == r.file \/ r.drive
  IN [port  |-> IF found THEN PyStr(r.disk) ELSE InitialPort,
      flags |-> IF found /\ current_OS = "Linux"
                  THEN UploadFlagsTemplate ELSE InitialFlags,
      said  |-> IF found THEN Printed("upload_disk", PyStr(r.disk))
                ELSE Printed("print_error", AutodetectError)]

\* ===================================================== what is observed
Done == pc = "done"
LastSaid == stdout[Len(stdout)]
Count(kind) == Cardinality({k \in 1..Len(stdout) : stdout[k].kind = kind})
Failed == Done /\ Len(stdout) > 0 /\ LastSaid.kind = "print_error"
Succeeded == Done /\ Len(stdout) > 0 /\ LastSaid.kind = "upload_disk"
ConfigUntouched ==
  /\ portWrites = 0 /\ UPLOAD_PORT = InitialPort
  /\ flagsWrites = 0 /\ UPLOAD_FLAGS = InitialFlags
ActualOutcome ==
  [port |-> UPLOAD_PORT, flags |-> UPLOAD_FLAGS, said |-> LastSaid]

\* ---- the candidates, read off the environment
Pos(letter) == CHOOSE k \in 1..Len(ascii_uppercase) : ascii_uppercase[k] = letter
Assigned == {k \in 1..MaxLetters : Bit(bitmask, k) = 1}
Letter(k) == ascii_uppercase[k]
\* the label is in the output of the vol query of drive k
LabelOnDrive(k) == ~vol[Letter(k)].raises /\ target_drive \in vol[Letter(k)].out
\* the file name is in the output of the dir query of drive k, a query
\* that is made only after the vol query of that drive gave an output
FileOnDrive(k) ==
  /\ ~vol[Letter(k)].raises
  /\ ~dir[Letter(k)].raises /\ target_filename \in dir[Letter(k)].out
DriveHit(k) == LabelOnDrive(k) \/ FileOnDrive(k)
DriveText(k) == Letter(k) \o ":"

Subdirs == {k \in 1..Len(entries) : entries[k].is_dir}
NamedLabel(k) == entries[k].name = target_drive
HoldsFile(k) == ~entries[k].listing.raises /\ FileItem \in entries[k].listing.items
RootText == IF current_OS = "Linux" THEN "/media/" \o user ELSE "/Volumes"
EntryText(k) == RootText \o "/" \o entries[k].name
\* the positions in `entries` of the subdirectories that were iterated
Listed == {k \in Subdirs : \E j \in 1..Len(queries) :
             queries[j].op = "iterdir" /\ PyStr(queries[j].on) = EntryText(k)}
Min(S) == CHOOSE x \in S : \A y \in S : x <= y
Max(S) == CHOOSE x \in S : \A y \in S : x >= y

\* ================================================================ claims

\* C1: when no candidate matches the target label and no candidate contains
\* the target file name, before_upload ends with print_error and writes
\* neither UPLOAD_PORT nor UPLOAD_FLAGS, on every system; on a system that
\* is not Windows, Linux or Darwin nothing is enumerated or queried and the
\* error is 'Autodetect Error'.
NoCandidateMatches ==
  /\ \A k \in Assigned :
       /\ target_drive \notin vol[Letter(k)].out
       /\ target_filename \notin dir[Letter(k)].out
  /\ \A k \in Subdirs : ~NamedLabel(k) /\ ~HoldsFile(k)
C1_NoMatchFails ==
  /\ NoCandidateMatches => ConfigUntouched
  /\ (Done /\ NoCandidateMatches) => (Failed /\ Count("upload_disk") = 0)
  /\ (Done /\ current_OS \notin {"Windows", "Linux", "Darwin"}) =>
       /\ drives = << >> /\ queries = << >>
       /\ stdout = <<Printed("print_error", AutodetectError)>>
       /\ ConfigUntouched
C1_Witness ==
  /\ Done /\ current_OS = "Windows" /\ NoCandidateMatches
  /\ Cardinality(Assigned) >= 2 /\ Len(queries) >= 3
  /\ Failed /\ ConfigUntouched

\* C2: on Windows the drives are scanned in alphabetical order and the drive
\* selected is the first one whose vol output contains the label or whose
\* dir output contains the file name; the label is checked before the file
\* on one drive, no drive after the selected one is queried, and with a file
\* on C and the label on D (nothing on A or B) the result is C.
QueriesInScanOrder ==
  \A i, j \in 1..Len(queries) : i < j =>
    \/ Pos(queries[i].on) < Pos(queries[j].on)
    \/ /\ queries[i].on = queries[j].on
       /\ queries[i].op = "vol" /\ queries[j].op = "dir" /\ j = i + 1
C3_LinuxLabelSelected ==
  (Done /\ current_OS = "Linux" /\ rootErr = NoError
        /\ \E k \in Subdirs : NamedLabel(k)) =>
    /\ UPLOAD_PORT = "/media/" \o user \o "/" \o target_drive
    /\ queries = << >>

\* C4: UPLOAD_FLAGS is written, to "-P$UPLOAD_PORT", exactly when the system
\* is Linux and the resolution succeeded (by label or by file); in every
\* other case it keeps its value.
C4_FlagsIffLinuxSuccess ==
  /\ flagsWrites <= 1
  /\ flagsWrites = 1 => (current_OS = "Linux" /\ UPLOAD_FLAGS = UploadFlagsTemplate)
  /\ flagsWrites = 0 => UPLOAD_FLAGS = InitialFlags
  /\ Done => ( flagsWrites = 1 <=>
                 /\ current_OS = "Linux"
                 /\ target_file_found \/ target_drive_found
                 /\ Succeeded )
  /\ (Done /\ current_OS = "Linux" /\ Succeeded) => flagsWrites = 1
C4_Witness ==
  /\ Done /\ current_OS = "Linux" /\ Succeeded /\ target_file_found
  /\ flagsWrites = 1 /\ UPLOAD_FLAGS = UploadFlagsTemplate

\* C5 as stated: on macOS, with a directory named as the label and, later
\* in the enumeration, another directory that holds the target file, the
\* final UPLOAD_PORT is the path of that later directory.
C5_LaterFileDirWins ==
  (Done /\ current_OS = "Darwin" /\ rootErr = NoError) =>
    \A i, j \in Subdirs :
      (i < j /\ NamedLabel(i) /\ HoldsFile(j)) => UPLOAD_PORT = EntryText(j)
\* C5 as amended: ... and no directory enumerated before that later one
\* (the label-named one included) holds the target file; then the final
\* UPLOAD_PORT is the path of the later, file-holding directory.
C5_LaterFileDirWinsIfFirst ==
  (Done /\ current_OS = "Darwin" /\ rootErr = NoError) =>
    \A i, j \in Subdirs :
      ( /\ i < j /\ NamedLabel(i) /\ HoldsFile(j)
        /\ \A k \in Subdirs : k < j => ~HoldsFile(k) )
      => (UPLOAD_PORT = EntryText(j) /\ UPLOAD_PORT # EntryText(i))
C5_Witness ==
  /\ Done /\ current_OS = "Darwin"
  /\ \E i, j \in Subdirs :
       /\ i < j /\ NamedLabel(i) /\ ~HoldsFile(i) /\ HoldsFile(j)
       /\ \A k \in Subdirs : k < j => ~HoldsFile(k)
       /\ UPLOAD_PORT = EntryText(j)

\* C6: a candidate whose query raises (vol or dir on Windows, iterating the
\* subdirectory on Linux and macOS) is not selected and does not end the
\* scan: the outcome (UPLOAD_PORT, UPLOAD_FLAGS, final message) is the one
\* of the same scan over the enumeration without that candidate.
Without(ds, x) == SelectSeq(ds, LAMBDA d : d # x)
OnOf(q) == IF q.op = "iterdir" THEN PyStr(q.on) ELSE q.on \o ":"
C7_RootErrorReported ==
  /\ pc \in {"start", "win_loop", "linux_loop", "linux_flags", "mac_loop",
             "finish", "except", "done"}
  /\ pc # "done" => ENABLED Next
  /\ exc # NoError => (pc \in {"except", "done"} /\ exc = rootErr)
  /\ rootErr # NoError => ConfigUntouched
  /\ (Done /\ rootErr # NoError) =>
       /\ stdout = <<Printed("print_error", rootErr)>>
       /\ queries = << >>
  /\ Done => Count("upload_disk") + Count("print_error") = 1
  /\ Done => (Succeeded \/ Failed)
C7_Witness ==
  /\ Done /\ current_OS = "Darwin" /\ rootErr = "[Errno 13] Permission denied"
  /\ exc = rootErr /\ Failed /\ LastSaid.text = rootErr

C9_LinuxFirstFileWins ==
  (Done /\ current_OS = "Linux" /\ rootErr = NoError /\ ~target_drive_found) =>
    LET holders == {k \in Subdirs : HoldsFile(k)} IN
    IF holders = {}
      THEN Failed /\ portWrites = 0 /\ Listed = Subdirs
      ELSE /\ Succeeded /\ target_file_found
           /\ UPLOAD_PORT = EntryText(Min(holders))
           /\ Listed = {k \in Subdirs : k <= Min(holders)}
C9_Witness ==
  /\ Done /\ current_OS = "Linux" /\ Len(entries) >= 2
  /\ entries[1].name = "OTHER1" /\ entries[1].is_dir /\ ~HoldsFile(1)
  /\ entries[2].name = "OTHER2" /\ entries[2].is_dir /\ HoldsFile(2)
  /\ UPLOAD_PORT = "/media/user/OTHER2" /\ Listed = {1, 2}

\* C10: UPLOAD_PORT is written at most once; a written value is the path of
\* a candidate of this invocation that matches by label or by file, never
\* 'Disk not found'; and it is written exactly when target_file_found or
\* target_drive_found holds at the end of the scan.
MatchingCandidates ==
  IF current_OS = "Windows"
    THEN {DriveText(k) : k \in {a \in Assigned : DriveHit(a)}}
    ELSE {EntryText(k) : k \in {d \in Subdirs : NamedLabel(d) \/ HoldsFile(d)}}
C10_PortWrittenOnceToAMatch ==
  /\ portWrites <= 1
  /\ portWrites = 0 => UPLOAD_PORT = InitialPort
  /\ portWrites = 1 =>
       /\ Done
       /\ UPLOAD_PORT # DiskNotFound
       /\ UPLOAD_PORT = PyStr(upload_disk)
       /\ UPLOAD_PORT \in MatchingCandidates
  /\ Done => (portWrites = 1 <=> (target_file_found \/ target_drive_found))
C10_Witness ==
  /\ Done /\ portWrites = 1 /\ current_OS = "Windows"
  /\ target_drive_found /\ UPLOAD_PORT = "B:" /\ Assigned = {1, 2, 4}
====
